---- MODULE Spec2Model ----
(***************************************************************************)
(* PartialSet<V, P, S>: a hash set of full values V that are hashed and    *)
(* compared by a projected key P (src/src/lib.rs).  The value type is the  *)
(* struct Test { key, value } of src/src/test.rs, projected to its key.    *)
(*                                                                         *)
(* The underlying std HashSet<Partial<V, P>, S> is modelled as the set of  *)
(* its entries; every lookup goes through the Hash and Eq implementations  *)
(* that lib.rs gives to Partial, so that lookups see what the table sees.  *)
(***************************************************************************)
EXTENDS Integers, Sequences, FiniteSets, Bags, TLC

MaxKey == 2
MaxVal == 2
HashMod == 2
\* the largest usize, and the largest table the allocator grants
MaxUsize == 255
MaxBuckets == 16

Keys == 1..MaxKey
Vals == 1..MaxVal

\* struct Test { key: i32, value: i32 }
Values == [key : Keys, value : Vals]

None == <<"None">>
Ok == <<"Ok">>
Err(e) == <<"Err", e>>
Some(x) == <<"Some", x>>

\* a projection to the other field of Test
to_partial_value(v) == v.value

\* impl ToPartial<i32> for Test
to_partial(v) == v.key

\* impl ToPartial<P> for &V: a reference is modelled as a one-field record
Ref(v) == [deref |-> v]
ref_to_partial(r) == to_partial(r.deref)

\* impl From<V> for Partial<V, P>
Partial_from(v) == [value |-> v]

\* Partial::into_value, and the closures |p| p.value of the iterators
into_value(p) == p.value

Partials == {Partial_from(v) : v \in Values}

VARIABLES inner, other, hasher, last, prev, drain, diff, buckets, tombs, it

vars == <<inner, other, hasher, last, prev, drain, diff, buckets, tombs, it>>

\* the caller's BuildHasher S: every key hashes alike, or keys spread over
\* HashMod classes
Hashers == {1, HashMod}

\* the hash of a key P under the set's BuildHasher
HashP(k) == k % hasher

\* a hash over the whole value instead of the projected key
Partial_hash_full(p) == HashP(p.value.key + p.value.value)

\* impl Hash for Partial
Partial_hash(p) == HashP(to_partial(p.value))

\* impl PartialEq<P> for Partial
Partial_eq_P(p, k) == to_partial(p.value) = k

\* an equality over the whole value, as a derived PartialEq would give
Partial_eq_full(p, q) == p.value = q.value

\* impl PartialEq<Partial<V, P>> for Partial
Partial_eq(p, q) == to_partial(p.value) = to_partial(q.value)

\* a borrow of the other field of the value
Partial_borrow_value(p) == p.value.value

\* impl Borrow<P> for Partial
Partial_borrow(p) == to_partial(p.value)

\* a probe that takes the first entry of the hash class for the key
FindKey_hash_only(s, k) == {x \in s : Partial_hash(x) = HashP(k)}

\* HashSet probe with a bare key: same hash, and key == entry.borrow()
FindKey(s, k) == {x \in s : Partial_hash(x) = HashP(k) /\ k = Partial_borrow(x)}

\* HashSet probe with an entry: same hash, and entry == stored entry
FindEntry(s, e) == {x \in s : Partial_hash(x) = Partial_hash(e) /\ Partial_eq(e, x)}

\* PartialSet::contains
PartialSet_contains(s, k) == FindKey(s, k) # {}

\* PartialSet::len
PartialSet_len(s) == Cardinality(s)

\* PartialSet::is_empty
PartialSet_is_empty(s) == Cardinality(s) = 0

\* the caller's closures handed to retain
Preds == {[kind |-> "key_le", n |-> k] : k \in 0..MaxKey}
           \cup {[kind |-> "value_eq", n |-> n] : n \in Vals}
call(f, v) == IF f.kind = "key_le" THEN v.key <= f.n ELSE v.value = f.n

(***************************************************************************)
(* The capacity plan of the std HashSet behind `inner`: the table has      *)
(* `buckets` slots (0 for the unallocated table of HashSet::new), of which *)
(* `tombs` hold the mark left by an erased entry.  Where the entries lie   *)
(* depends on their hashes and is not modelled: what the layout decides is *)
(* a choice among the outcomes it can produce.                             *)
(***************************************************************************)
\* the number of slots the table probes at once (32-bit targets, no SIMD)
GroupWidth == 4

\* the entries a table of b buckets holds before it grows (load factor 7/8)
bucket_mask_to_capacity(b) ==
    IF b = 0 THEN 0 ELSE IF b < 8 THEN b - 1 ELSE (b \div 8) * 7

RECURSIVE next_power_of_two(_, _)
next_power_of_two(n, p) == IF p >= n THEN p ELSE next_power_of_two(n, 2 * p)

\* the buckets allocated for a capacity of c entries
capacity_to_buckets(c) ==
    IF c < 4 THEN 4 ELSE IF c < 8 THEN 8 ELSE next_power_of_two((c * 8) \div 7, 1)

\* free slots left before the table must grow
growth_left(items, b, t) == bucket_mask_to_capacity(b) - items - t

\* HashSet::capacity: the entries held plus the free slots left
table_capacity(b, t) == bucket_mask_to_capacity(b) - t

\* PartialSet::capacity
PartialSet_capacity == table_capacity(buckets, tombs)

\* the table after it made room for a more entries: the marks are swept in
\* place when half the table suffices, else the entries move to a larger one
reserve_rehash(items, b, a) ==
    LET new_items == items + a
        full == bucket_mask_to_capacity(b)
    IN  IF new_items <= full \div 2
        THEN [buckets |-> b, tombs |-> 0]
        ELSE [buckets |-> capacity_to_buckets(IF new_items > full + 1
                                               THEN new_items ELSE full + 1),
              tombs |-> 0]

\* the tables an insert can leave.  A new entry takes a free slot or, when
\* there is one on its probe path, a marked slot; a full table grows first.
\* Some std versions make room for one entry before they probe, so an
\* insert that finds its key in a full table can grow it too.
insert_outcomes(items, b, t, isnew) ==
    LET keep == [buckets |-> b, tombs |-> t]
        full == growth_left(items, b, t) = 0
    IN  IF isnew
        THEN (IF full THEN {reserve_rehash(items, b, 1)} ELSE {keep})
             \cup (IF t > 0 THEN {[buckets |-> b, tombs |-> t - 1]} ELSE {})
        ELSE {keep} \cup (IF full THEN {reserve_rehash(items, b, 1)} ELSE {})

\* the marks after e entries were erased from a table with n slots in use
\* (entries and marks): a slot inside a run of GroupWidth used slots is
\* marked, any other slot is freed
RECURSIVE erase_outcomes(_, _, _)
erase_outcomes(n, t, e) ==
    IF e = 0 THEN {t}
    ELSE erase_outcomes(n - 1, t, e - 1)
         \cup (IF n >= GroupWidth THEN erase_outcomes(n, t + 1, e - 1) ELSE {})

\* HashSet::try_reserve on a table: nothing to do when the free slots
\* suffice; else the new size is computed in usize and the larger table is
\* allocated, and either step can fail
try_reserve_table(items, b, t, a) ==
    LET full == bucket_mask_to_capacity(b)
        new_items == items + a
        c == IF new_items > full + 1 THEN new_items ELSE full + 1
    IN  IF a <= growth_left(items, b, t)
        THEN [ret |-> Ok, buckets |-> b, tombs |-> t]
        ELSE IF new_items > MaxUsize
        THEN [ret |-> Err("CapacityOverflow"), buckets |-> b, tombs |-> t]
        ELSE IF new_items <= full \div 2
        THEN [ret |-> Ok, buckets |-> b, tombs |-> 0]
        ELSE IF c >= 8 /\ c * 8 > MaxUsize
        THEN [ret |-> Err("CapacityOverflow"), buckets |-> b, tombs |-> t]
        ELSE IF capacity_to_buckets(c) > MaxBuckets
        THEN [ret |-> Err("AllocError"), buckets |-> b, tombs |-> t]
        ELSE [ret |-> Ok, buckets |-> capacity_to_buckets(c), tombs |-> 0]

\* HashSet::shrink_to on a table: no lower than the entries held; an empty
\* request frees the table, a smaller table is taken when one suffices
shrink_to_table(items, b, t, min_capacity) ==
    LET min_size == IF items > min_capacity THEN items ELSE min_capacity
    IN  IF min_size = 0
        THEN [buckets |-> 0, tombs |-> 0]
        ELSE IF min_size >= 8 /\ min_size * 8 > MaxUsize
        THEN [buckets |-> b, tombs |-> t]
        ELSE IF capacity_to_buckets(min_size) < b
        THEN [buckets |-> capacity_to_buckets(min_size), tombs |-> 0]
        ELSE [buckets |-> b, tombs |-> t]

\* the table of self after an insert or replace
InsertTable(isnew) ==
    \E tb \in insert_outcomes(Cardinality(inner), buckets, tombs, isnew) :
        /\ buckets' = tb.buckets
        /\ tombs' = tb.tombs

\* the table of self after e entries were erased
EraseTable(e) ==
    /\ tombs' \in erase_outcomes(Cardinality(inner) + tombs, tombs, e)
    /\ buckets' = buckets

\* the table of self after it was cleared: every slot is free again; some
\* std versions leave a table without entries as it is
ClearTable ==
    /\ tombs' \in (IF inner = {} THEN {0, tombs} ELSE {0})
    /\ buckets' = buckets

SameTable == buckets' = buckets /\ tombs' = tombs

NoIter == [on |-> FALSE, iter |-> {}, out |-> <<>>, done |-> FALSE]

\* the call before the last one is remembered when it was a call of insert,
\* contains, remove or to_partial, or a traversal by iter: its argument and
\* its result, and for an insert, the set it was called on
Blank == [op |-> "other", arg |-> <<>>, ret |-> <<>>, pre |-> {}, cap |-> 0]
Hist(r) ==
    IF r.op \in {"insert", "to_partial", "iter_end"}
    THEN [r EXCEPT !.cap = 0]
    ELSE IF r.op \in {"contains", "remove"}
    THEN [r EXCEPT !.pre = {}, !.cap = 0]
    ELSE Blank

\* PartialSet::with_hasher, twice: self and other
Init ==
    /\ inner = {}
    /\ other = {}
    /\ hasher \in Hashers
    /\ last = [op |-> "new", arg |-> <<>>, ret |-> <<>>, pre |-> {}, cap |-> 0]
    /\ prev = Blank
    /\ drain = NoIter
    /\ diff = NoIter
    /\ buckets = 0
    /\ tombs = 0
    /\ it = NoIter

\* no iterator borrows self
Idle == ~drain.on /\ ~diff.on /\ ~it.on /\ last.op # "abort"

Record(o, a, r) ==
    /\ last' = [op |-> o, arg |-> a, ret |-> r, pre |-> inner,
                cap |-> PartialSet_capacity]
    /\ prev' = Hist(last)

\* insert that overwrites the stored entry on a collision
Insert_overwrite(v) ==
    /\ Idle
    /\ LET e == Partial_from(v)
           m == FindEntry(inner, e)
       IN  /\ inner' = (inner \ m) \cup {e}
           /\ Record("insert", v, m = {})
           /\ InsertTable(m = {})
    /\ UNCHANGED <<other, hasher, drain, diff, it>>

\* PartialSet::insert on self
Insert(v) ==
    /\ Idle
    /\ LET e == Partial_from(v)
           m == FindEntry(inner, e)
       IN  /\ inner' = IF m = {} THEN inner \cup {e} ELSE inner
           /\ Record("insert", v, m = {})
           /\ InsertTable(m = {})
    /\ UNCHANGED <<other, hasher, drain, diff, it>>

\* replace that keeps the stored entry on a collision
Replace_keep_old(v) ==
    /\ Idle
    /\ LET e == Partial_from(v)
           m == FindEntry(inner, e)
       IN  \/ /\ m = {}
              /\ inner' = inner \cup {e}
              /\ Record("replace", v, None)
           \/ \E x \in m :
                /\ inner' = inner
                /\ Record("replace", v, Some(into_value(x)))
    /\ InsertTable(FindEntry(inner, Partial_from(v)) = {})
    /\ UNCHANGED <<other, hasher, drain, diff, it>>

\* PartialSet::replace on self
Replace(v) ==
    /\ Idle
    /\ LET e == Partial_from(v)
           m == FindEntry(inner, e)
       IN  \/ /\ m = {}
              /\ inner' = inner \cup {e}
              /\ Record("replace", v, None)
           \/ \E x \in m :
                /\ inner' = (inner \ {x}) \cup {e}
                /\ Record("replace", v, Some(into_value(x)))
    /\ InsertTable(FindEntry(inner, Partial_from(v)) = {})
    /\ UNCHANGED <<other, hasher, drain, diff, it>>

\* PartialSet::contains on self
Contains(k) ==
    /\ Idle
    /\ Record("contains", k, PartialSet_contains(inner, k))
    /\ UNCHANGED <<inner, other, hasher, drain, diff, buckets, tombs, it>>

\* PartialSet::get on self
Get(k) ==
    /\ Idle
    /\ LET m == FindKey(inner, k)
       IN  \/ /\ m = {}
              /\ Record("get", k, None)
           \/ \E x \in m : Record("get", k, Some(into_value(x)))
    /\ UNCHANGED <<inner, other, hasher, drain, diff, buckets, tombs, it>>

\* remove that reports the hit but erases nothing
Remove_keep(k) ==
    /\ Idle
    /\ inner' = inner
    /\ Record("remove", k, FindKey(inner, k) # {})
    /\ SameTable
    /\ UNCHANGED <<other, hasher, drain, diff, it>>

\* PartialSet::remove on self
Remove(k) ==
    /\ Idle
    /\ LET m == FindKey(inner, k)
       IN  \/ /\ m = {}
              /\ inner' = inner
              /\ Record("remove", k, FALSE)
           \/ \E x \in m :
                /\ inner' = inner \ {x}
                /\ Record("remove", k, TRUE)
    /\ EraseTable(Cardinality(FindKey(inner, k)))
    /\ UNCHANGED <<other, hasher, drain, diff, it>>

\* take that hands out the value but leaves the entry in the table
Take_peek(k) ==
    /\ Idle
    /\ inner' = inner
    /\ LET m == FindKey(inner, k)
       IN  \/ /\ m = {}
              /\ Record("take", k, None)
           \/ \E x \in m : Record("take", k, Some(into_value(x)))
    /\ SameTable
    /\ UNCHANGED <<other, hasher, drain, diff, it>>

\* PartialSet::take on self, with Q = P
Take(k) ==
    /\ Idle
    /\ LET m == FindKey(inner, k)
       IN  \/ /\ m = {}
              /\ inner' = inner
              /\ Record("take", k, None)
           \/ \E x \in m :
                /\ inner' = inner \ {x}
                /\ Record("take", k, Some(into_value(x)))
    /\ EraseTable(Cardinality(FindKey(inner, k)))
    /\ UNCHANGED <<other, hasher, drain, diff, it>>

\* a retain pass that erases the entries f accepts
RECURSIVE retain_loop_inverted(_, _, _, _)
retain_loop_inverted(todo, kept, calls, f) ==
    IF todo = {} THEN [set |-> kept, calls |-> calls]
    ELSE LET p == CHOOSE x \in todo : TRUE
         IN  retain_loop_inverted(todo \ {p},
                         IF call(f, p.value) THEN kept ELSE kept \cup {p},
                         calls (+) SetToBag({p.value}), f)

\* HashSet::retain driven by the closure |partial| f(&partial.value): one
\* pass over the entries, f called on each, the entry erased when f says false
RECURSIVE retain_loop(_, _, _, _)
retain_loop(todo, kept, calls, f) ==
    IF todo = {} THEN [set |-> kept, calls |-> calls]
    ELSE LET p == CHOOSE x \in todo : TRUE
         IN  retain_loop(todo \ {p},
                         IF call(f, p.value) THEN kept \cup {p} ELSE kept,
                         calls (+) SetToBag({p.value}), f)

\* PartialSet::retain on self
Retain(f) ==
    /\ Idle
    /\ LET r == retain_loop(inner, {}, EmptyBag, f)
       IN  /\ inner' = r.set
           /\ Record("retain", f, r.calls)
           /\ EraseTable(Cardinality(inner) - Cardinality(r.set))
    /\ UNCHANGED <<other, hasher, drain, diff, it>>

\* a clear that replaces the table by a new one
Clear_fresh ==
    /\ Idle
    /\ inner' = {}
    /\ Record("clear", <<>>, <<>>)
    /\ buckets' = 0
    /\ tombs' = 0
    /\ UNCHANGED <<other, hasher, drain, diff, it>>

\* PartialSet::clear on self
Clear ==
    /\ Idle
    /\ inner' = {}
    /\ Record("clear", <<>>, <<>>)
    /\ ClearTable
    /\ UNCHANGED <<other, hasher, drain, diff, it>>

\* PartialSet::drain on self: the table's entries move into the iterator,
\* which borrows the set mutably until it is dropped
Drain ==
    /\ Idle
    /\ drain' = [on |-> TRUE, iter |-> inner, out |-> <<>>, done |-> FALSE]
    /\ inner' = {}
    /\ Record("drain", <<>>, <<>>)
    /\ UNCHANGED <<other, hasher, diff, buckets, tombs, it>>

\* a Drain::next that may pass over an entry without yielding it
DrainNext_skip ==
    /\ drain.on
    /\ \/ \E p \in drain.iter : \E q \in drain.iter :
            drain' = [drain EXCEPT !.iter = @ \ {p, q},
                                   !.out = Append(@, into_value(p))]
       \/ /\ drain.iter = {}
          /\ drain' = [drain EXCEPT !.done = TRUE]
    /\ UNCHANGED <<inner, other, hasher, last, prev, diff, buckets, tombs, it>>

\* Drain::next: the table's order is not specified
DrainNext ==
    /\ drain.on
    /\ \/ \E p \in drain.iter :
            drain' = [drain EXCEPT !.iter = @ \ {p},
                                   !.out = Append(@, into_value(p))]
       \/ /\ drain.iter = {}
          /\ drain' = [drain EXCEPT !.done = TRUE]
    /\ UNCHANGED <<inner, other, hasher, last, prev, diff, buckets, tombs, it>>

\* a drop that puts the entries not yielded back into the set
DrainDrop_restore ==
    /\ drain.on
    /\ drain' = NoIter
    /\ inner' = drain.iter
    /\ last' = [op |-> "drain_end", arg |-> <<>>,
                ret |-> [out |-> drain.out, done |-> drain.done],
                pre |-> last.pre, cap |-> last.cap]
    /\ prev' = Hist(last)
    /\ tombs' = 0
    /\ UNCHANGED <<other, hasher, diff, buckets, it>>

\* drop of the Drain: what was not yielded is dropped, the set is left empty
DrainDrop ==
    /\ drain.on
    /\ drain' = NoIter
    /\ inner' = {}
    /\ last' = [op |-> "drain_end", arg |-> <<>>,
                ret |-> [out |-> drain.out, done |-> drain.done],
                pre |-> last.pre, cap |-> last.cap]
    /\ prev' = Hist(last)
    /\ tombs' = 0
    /\ UNCHANGED <<other, hasher, diff, buckets, it>>

\* PartialSet::difference: self.inner.difference(&other.inner)
Difference ==
    /\ Idle
    /\ diff' = [on |-> TRUE, iter |-> inner, out |-> <<>>, done |-> FALSE]
    /\ Record("difference", other, <<>>)
    /\ UNCHANGED <<inner, other, hasher, drain, buckets, tombs, it>>

\* a Difference::next that does not consult other
DiffNext_unfiltered ==
    /\ diff.on
    /\ \/ \E p \in diff.iter :
            diff' = [diff EXCEPT !.iter = @ \ {p},
                                 !.out = Append(@, into_value(p))]
       \/ /\ diff.iter = {}
          /\ diff' = [diff EXCEPT !.done = TRUE]
    /\ UNCHANGED <<inner, other, hasher, last, prev, drain, buckets, tombs, it>>

\* Difference::next: walk self's entries, skipping those other contains,
\* up to the first one it does not contain; None when self is exhausted
DiffNext ==
    /\ diff.on
    /\ LET in_other(x) == FindEntry(other, x) # {}
       IN  \/ \E p \in diff.iter : \E skipped \in SUBSET (diff.iter \ {p}) :
                /\ ~in_other(p)
                /\ \A x \in skipped : in_other(x)
                /\ diff' = [diff EXCEPT !.iter = @ \ (skipped \cup {p}),
                                        !.out = Append(@, into_value(p))]
           \/ /\ \A x \in diff.iter : in_other(x)
              /\ diff' = [diff EXCEPT !.iter = {}, !.done = TRUE]
    /\ UNCHANGED <<inner, other, hasher, last, prev, drain, buckets, tombs, it>>

\* drop of the Difference
DiffDrop ==
    /\ diff.on
    /\ diff' = NoIter
    /\ last' = [op |-> "difference_end", arg |-> last.arg,
                ret |-> [out |-> diff.out, done |-> diff.done],
                pre |-> last.pre, cap |-> last.cap]
    /\ prev' = Hist(last)
    /\ UNCHANGED <<inner, other, hasher, drain, buckets, tombs, it>>

\* ToPartial::to_partial on a value and on a reference to it
ToPartial(v) ==
    /\ Idle
    /\ Record("to_partial", v,
              [own |-> to_partial(v), ref |-> ref_to_partial(Ref(v))])
    /\ UNCHANGED <<inner, other, hasher, drain, diff, buckets, tombs, it>>

\* an iter that moves the entries out of the set, as drain does
Iter_draining ==
    /\ Idle
    /\ it' = [on |-> TRUE, iter |-> inner, out |-> <<>>, done |-> FALSE]
    /\ inner' = {}
    /\ Record("iter", <<>>, <<>>)
    /\ UNCHANGED <<other, hasher, drain, diff, buckets, tombs>>

\* PartialSet::iter on self: the iterator borrows the set until it is dropped
Iter ==
    /\ Idle
    /\ it' = [on |-> TRUE, iter |-> inner, out |-> <<>>, done |-> FALSE]
    /\ Record("iter", <<>>, <<>>)
    /\ UNCHANGED <<inner, other, hasher, drain, diff, buckets, tombs>>

\* Iter::next: a reference to the next value, in the table's order
IterNext ==
    /\ it.on
    /\ \/ \E p \in it.iter :
            it' = [it EXCEPT !.iter = @ \ {p}, !.out = Append(@, Ref(p.value))]
       \/ /\ it.iter = {}
          /\ it' = [it EXCEPT !.done = TRUE]
    /\ UNCHANGED <<inner, other, hasher, last, prev, drain, diff, buckets, tombs>>

\* drop of the Iter: the traversal is over
IterDrop ==
    /\ it.on
    /\ it' = NoIter
    /\ last' = [op |-> "iter_end", arg |-> <<>>,
                ret |-> [out |-> it.out, done |-> it.done],
                pre |-> last.pre, cap |-> last.cap]
    /\ UNCHANGED <<inner, other, hasher, prev, drain, diff, buckets, tombs>>

\* the capacities asked of reserve, try_reserve and shrink_to
Requests == {0, 3, 8, MaxBuckets, MaxUsize}

\* PartialSet::reserve on self: panics or aborts where try_reserve fails
Reserve(n) ==
    /\ Idle
    /\ LET r == try_reserve_table(Cardinality(inner), buckets, tombs, n)
       IN  \/ /\ r.ret = Ok
              /\ buckets' = r.buckets
              /\ tombs' = r.tombs
              /\ Record("reserve", n, <<>>)
           \/ /\ r.ret # Ok
              /\ SameTable
              /\ Record("abort", [call |-> "reserve", n |-> n], <<>>)
    /\ UNCHANGED <<inner, other, hasher, drain, diff, it>>

\* a try_reserve that goes through reserve
TryReserve_infallible(n) ==
    /\ Idle
    /\ LET r == try_reserve_table(Cardinality(inner), buckets, tombs, n)
       IN  \/ /\ r.ret = Ok
              /\ buckets' = r.buckets
              /\ tombs' = r.tombs
              /\ Record("try_reserve", n, Ok)
           \/ /\ r.ret # Ok
              /\ SameTable
              /\ Record("abort", [call |-> "try_reserve", n |-> n], <<>>)
    /\ UNCHANGED <<inner, other, hasher, drain, diff, it>>

\* PartialSet::try_reserve on self
TryReserve(n) ==
    /\ Idle
    /\ LET r == try_reserve_table(Cardinality(inner), buckets, tombs, n)
       IN  /\ buckets' = r.buckets
           /\ tombs' = r.tombs
           /\ Record("try_reserve", n, r.ret)
    /\ UNCHANGED <<inner, other, hasher, drain, diff, it>>

\* a shrink_to that also drops the entries beyond the requested capacity
ShrinkTo_truncate(n) ==
    /\ Idle
    /\ \E kept \in SUBSET inner :
          /\ Cardinality(kept) = (IF Cardinality(inner) > n THEN n ELSE Cardinality(inner))
          /\ inner' = kept
          /\ LET tb == shrink_to_table(Cardinality(kept), buckets, tombs, n)
             IN  buckets' = tb.buckets /\ tombs' = tb.tombs
    /\ Record("shrink_to", n, <<>>)
    /\ UNCHANGED <<other, hasher, drain, diff, it>>

\* PartialSet::shrink_to on self
ShrinkTo(n) ==
    /\ Idle
    /\ LET tb == shrink_to_table(Cardinality(inner), buckets, tombs, n)
       IN  buckets' = tb.buckets /\ tombs' = tb.tombs
    /\ Record("shrink_to", n, <<>>)
    /\ UNCHANGED <<inner, other, hasher, drain, diff, it>>

\* PartialSet::shrink_to_fit on self
ShrinkToFit ==
    /\ Idle
    /\ LET tb == shrink_to_table(Cardinality(inner), buckets, tombs, 0)
       IN  buckets' = tb.buckets /\ tombs' = tb.tombs
    /\ Record("shrink_to_fit", <<>>, <<>>)
    /\ UNCHANGED <<inner, other, hasher, drain, diff, it>>

\* the calls that change the members of self
Next ==
    \/ \E v \in Values : Insert(v)
    \/ \E v \in Values : Replace(v)
    \/ \E k \in Keys : Remove(k)
    \/ \E k \in Keys : Take(k)
    \/ \E f \in Preds : Retain(f)
    \/ Clear
    \/ Drain
    \/ DrainNext
    \/ DrainDrop

Spec == Init /\ [][Next]_vars

\* the lookups, between inserts and removes
NextLookup ==
    \/ \E k \in Keys : Contains(k)
    \/ \E k \in Keys : Get(k)
    \/ \E v \in Values : Insert(v)
    \/ \E k \in Keys : Remove(k)

SpecLookup == Init /\ [][NextLookup]_vars

\* values enough to fill a run of GroupWidth slots
CapValues == [key : 1..GroupWidth, value : {1}]

\* an empty set whose hasher sends every key to the same slot
InitCap ==
    /\ Init
    /\ hasher = 1

NextCap ==
    \/ \E v \in CapValues : Insert(v)
    \/ \E k \in 1..GroupWidth : Remove(k)
    \/ Clear
    \/ \E n \in Requests : Reserve(n)
    \/ \E n \in Requests : TryReserve(n)
    \/ \E n \in Requests : ShrinkTo(n)
    \/ ShrinkToFit

SpecCap == InitCap /\ [][NextCap]_vars

\* the states of a set: any entries with pairwise different keys (C1)
SetStates == {s \in SUBSET Partials : \A p, q \in s : Partial_eq(p, q) => p = q}

\* two sets built beforehand, with the same hasher
InitDiff ==
    /\ inner \in SetStates
    /\ other \in SetStates
    /\ hasher \in Hashers
    /\ last = [op |-> "new", arg |-> <<>>, ret |-> <<>>, pre |-> {}, cap |-> 0]
    /\ prev = Blank
    /\ drain = NoIter
    /\ diff = NoIter
    /\ buckets = (IF inner = {} THEN 0 ELSE capacity_to_buckets(Cardinality(inner)))
    /\ tombs = 0
    /\ it = NoIter

NextDiff ==
    \/ Difference
    \/ DiffNext
    \/ DiffDrop

SpecDiff == InitDiff /\ [][NextDiff]_vars

\* one set built beforehand
InitOne ==
    /\ InitDiff
    /\ other = {}

NextProj ==
    \E v \in Values : ToPartial(v)

SpecProj == InitOne /\ [][NextProj]_vars

NextIter ==
    \/ Iter
    \/ IterNext
    \/ IterDrop
    \/ \E v \in Values : Insert(v)
    \/ \E k \in Keys : Remove(k)

SpecIter == InitOne /\ [][NextIter]_vars

(***************************************************************************)
(* Helpers of the properties                                               *)
(***************************************************************************)
KeysOf(s) == {to_partial(p.value) : p \in s}
ValuesOf(s) == {p.value : p \in s}
StoredUnder(s, k) == {p.value : p \in {x \in s : to_partial(x.value) = k}}
UniqueKeys(s) == \A p, q \in s : to_partial(p.value) = to_partial(q.value) => p = q
Range(q) == {q[i] : i \in 1..Len(q)}
NoRepeat(q) == \A i, j \in 1..Len(q) : q[i] = q[j] => i = j

\* C1: in every state reachable from the empty set by insert, replace,
\* remove, take, retain, drain and clear, no two members of the set have
\* equal projected keys.
C1_UniqueKeys == UniqueKeys(inner) /\ UniqueKeys(drain.iter)

\* an insert collided with a member holding another full value, among others
C1_Witness ==
    /\ last.op = "insert"
    /\ last.ret = FALSE
    /\ last.arg \notin ValuesOf(inner)
    /\ Cardinality(inner) >= 2

\* C2: insert(v) is first-writer-wins: when a member with v's key exists it
\* returns false, the set is unchanged and the old value stays under the key;
\* otherwise it returns true and v is the member under its key.  From the
\* empty set, insert(a); insert(b) with equal keys leaves the one entry a.
C2_InsertFirstWins ==
    last.op = "insert" =>
        LET v == last.arg
            k == to_partial(v)
        IN  /\ IF k \in KeysOf(last.pre)
               THEN /\ last.ret = FALSE
                    /\ inner = last.pre
                    /\ StoredUnder(inner, k) = StoredUnder(last.pre, k)
               ELSE /\ last.ret = TRUE
                    /\ inner = last.pre \cup {Partial_from(v)}
                    /\ StoredUnder(inner, k) = {v}
            /\ (/\ prev.op = "insert"
                /\ prev.pre = {}
                /\ to_partial(prev.arg) = k)
               => (ValuesOf(inner) = {prev.arg} /\ PartialSet_len(inner) = 1)

\* insert(a); insert(b) from the empty set, equal keys, different values
C2_Witness ==
    /\ last.op = "insert"
    /\ prev.op = "insert"
    /\ prev.pre = {}
    /\ to_partial(prev.arg) = to_partial(last.arg)
    /\ prev.arg # last.arg
    /\ last.ret = FALSE

\* C3: replace(v) is last-writer-wins: when a member with v's key exists it
\* returns Some(the previous value), v is now stored under the key and len()
\* is unchanged; otherwise it returns None and v is a new member.  From the
\* empty set, insert(a); replace(b) with equal keys returns Some(a) and
\* leaves the one entry b.
C3_ReplaceLastWins ==
    last.op = "replace" =>
        LET v == last.arg
            k == to_partial(v)
        IN  /\ IF k \in KeysOf(last.pre)
               THEN /\ \E w \in StoredUnder(last.pre, k) :
                          /\ last.ret = Some(w)
                          /\ inner = (last.pre \ {Partial_from(w)}) \cup {Partial_from(v)}
                    /\ PartialSet_len(inner) = PartialSet_len(last.pre)
               ELSE /\ last.ret = None
                    /\ inner = last.pre \cup {Partial_from(v)}
                    /\ PartialSet_len(inner) = PartialSet_len(last.pre) + 1
            /\ StoredUnder(inner, k) = {v}
            /\ (/\ prev.op = "insert"
                /\ prev.pre = {}
                /\ to_partial(prev.arg) = k)
               => /\ last.ret = Some(prev.arg)
                  /\ ValuesOf(inner) = {v}
                  /\ PartialSet_len(inner) = 1

\* insert(a); replace(b) from the empty set, equal keys, different values
C3_Witness ==
    /\ last.op = "replace"
    /\ prev.op = "insert"
    /\ prev.pre = {}
    /\ to_partial(prev.arg) = to_partial(last.arg)
    /\ prev.arg # last.arg
    /\ last.ret = Some(prev.arg)

\* C4: lookups are driven by the projected key only: contains(k) is true iff
\* some member's key is k, get(k) is the stored member with key k or None,
\* neither depends on the non-key part of a value, and contains(k) is true
\* iff get(k) is Some.
C4_LookupByKey ==
    /\ last.op = "contains" =>
          /\ last.ret = (last.arg \in KeysOf(last.pre))
          /\ inner = last.pre
    /\ last.op = "get" =>
          /\ IF last.arg \in KeysOf(last.pre)
             THEN \E w \in StoredUnder(last.pre, last.arg) : last.ret = Some(w)
             ELSE last.ret = None
          /\ (last.ret # None) = PartialSet_contains(last.pre, last.arg)
          /\ inner = last.pre
    /\ (last.op = "get" /\ prev.op = "contains" /\ prev.arg = last.arg)
          => (prev.ret = (last.ret # None))

\* contains(k) said yes and get(k) then found the member, in a set where
\* another key falls in the same hash class
C4_Witness ==
    /\ last.op = "get"
    /\ prev.op = "contains"
    /\ prev.arg = last.arg
    /\ prev.ret = TRUE
    /\ last.ret # None
    /\ \E p \in inner : /\ to_partial(p.value) # last.arg
                        /\ Partial_hash(p) = HashP(last.arg)

\* C5: remove(k) returns true iff a member with key k existed; afterwards no
\* member has key k; for a key not present remove(k) returns false, get(k)
\* is None and the set is unchanged.
C5_Remove ==
    /\ last.op = "remove" =>
          /\ last.ret = (last.arg \in KeysOf(last.pre))
          /\ last.arg \notin KeysOf(inner)
          /\ FindKey(inner, last.arg) = {}
          /\ last.arg \notin KeysOf(last.pre) => inner = last.pre
    /\ (/\ last.op = "get"
        /\ prev.op = "remove"
        /\ prev.arg = last.arg) => last.ret = None

\* a remove that deleted one member out of several
C5_Witness ==
    /\ last.op = "remove"
    /\ last.ret = TRUE
    /\ Cardinality(last.pre) >= 2
    /\ Cardinality(inner) = Cardinality(last.pre) - 1

\* C6 as stated: for every value v and every set state, insert(v) followed
\* immediately by take(project(v)) returns Some(v), and afterwards
\* contains(project(v)) is false.
C6_RoundTripAnyState ==
    (/\ last.op = "take"
     /\ prev.op = "insert"
     /\ last.arg = to_partial(prev.arg))
    => /\ last.ret = Some(prev.arg)
       /\ ~PartialSet_contains(inner, last.arg)

\* C6 amended: insert(v) followed immediately by take(project(v)) returns
\* Some(v) when no member had v's projected key before the insert, and
\* Some(the member already stored under that key) otherwise; afterwards
\* contains(project(v)) is false.
C6_RoundTrip ==
    (/\ last.op = "take"
     /\ prev.op = "insert"
     /\ last.arg = to_partial(prev.arg))
    => /\ IF last.arg \in KeysOf(prev.pre)
          THEN \E w \in StoredUnder(prev.pre, last.arg) : last.ret = Some(w)
          ELSE last.ret = Some(prev.arg)
       /\ ~PartialSet_contains(inner, last.arg)

\* both cases of the round trip happen: a fresh key, and a key already
\* held by a member with another full value
C6_Witness ==
    /\ last.op = "take"
    /\ prev.op = "insert"
    /\ last.arg = to_partial(prev.arg)
    /\ last.arg \in KeysOf(prev.pre)
    /\ last.ret # Some(prev.arg)
    /\ last.ret # None

\* C7: take(k) is remove(k) that hands the value back: with a member under k
\* it returns Some(the stored value), the member is gone and len() is one
\* less; without one it returns None and the set is unchanged.
C7_Take ==
    last.op = "take" =>
        IF last.arg \in KeysOf(last.pre)
        THEN /\ \E w \in StoredUnder(last.pre, last.arg) :
                   /\ last.ret = Some(w)
                   /\ inner = last.pre \ {Partial_from(w)}
             /\ last.arg \notin KeysOf(inner)
             /\ PartialSet_len(inner) = PartialSet_len(last.pre) - 1
        ELSE /\ last.ret = None
             /\ inner = last.pre

\* a take that handed back one member out of several
C7_Witness ==
    /\ last.op = "take"
    /\ last.ret # None
    /\ Cardinality(last.pre) >= 2
    /\ Cardinality(inner) = Cardinality(last.pre) - 1

\* C8: a drain() consumed to its end has yielded every value stored at the
\* time of the call exactly once, and len() == 0 afterwards.
C8_DrainComplete ==
    /\ (drain.on /\ drain.done) =>
          /\ Range(drain.out) = ValuesOf(last.pre)
          /\ Len(drain.out) = Cardinality(last.pre)
          /\ NoRepeat(drain.out)
          /\ PartialSet_len(inner) = 0
    /\ (last.op = "drain_end" /\ last.ret.done) =>
          /\ Range(last.ret.out) = ValuesOf(last.pre)
          /\ Len(last.ret.out) = Cardinality(last.pre)
          /\ NoRepeat(last.ret.out)
          /\ PartialSet_len(inner) = 0

\* a drain of several members, consumed to its end and dropped
C8_Witness ==
    /\ last.op = "drain_end"
    /\ last.ret.done
    /\ Len(last.ret.out) >= 2
    /\ Cardinality(last.pre) >= 2

\* C9: difference(self, other) yields exactly the values of self whose key
\* is the key of no member of other, each once; membership in other goes by
\* key only; it yields nothing when every key of self is a key of other; and
\* neither set is modified.
C9_Difference ==
    LET expected(sf, ot) == {v \in ValuesOf(sf) : to_partial(v) \notin KeysOf(ot)}
    IN  /\ diff.on =>
              /\ Range(diff.out) \subseteq expected(last.pre, last.arg)
              /\ NoRepeat(diff.out)
              /\ diff.done => Range(diff.out) = expected(last.pre, last.arg)
              /\ inner = last.pre
              /\ other = last.arg
        /\ (last.op = "difference_end" /\ last.ret.done) =>
              /\ Range(last.ret.out) = expected(last.pre, last.arg)
              /\ NoRepeat(last.ret.out)
              /\ KeysOf(last.pre) \subseteq KeysOf(last.arg) => last.ret.out = <<>>
              /\ inner = last.pre
              /\ other = last.arg

\* a difference consumed to its end that yielded a value and left out a
\* value of self whose key other holds with another full value
C9_Witness ==
    /\ last.op = "difference_end"
    /\ last.ret.done
    /\ Len(last.ret.out) >= 1
    /\ \E p \in last.pre : \E q \in last.arg :
          /\ to_partial(p.value) = to_partial(q.value)
          /\ p.value # q.value

\* C10: retain(f) calls f exactly once on each member, and when it returns
\* the set holds exactly the prior members f accepted, their values unchanged.
C10_Retain ==
    last.op = "retain" =>
        /\ BagToSet(last.ret) = ValuesOf(last.pre)
        /\ \A v \in BagToSet(last.ret) : CopiesIn(v, last.ret) = 1
        /\ inner = {p \in last.pre : call(last.arg, p.value)}

\* a retain that removed a member and kept another
C10_Witness ==
    /\ last.op = "retain"
    /\ inner # {}
    /\ inner # last.pre

C15_EntryIsItsKey ==
    /\ \A p, q \in Partials :
          Partial_eq(p, q) = (to_partial(p.value) = to_partial(q.value))
    /\ \A p \in Partials : \A k \in Keys :
          /\ Partial_eq_P(p, k) = (to_partial(p.value) = k)
          /\ (Partial_borrow(p) = k) = Partial_eq_P(p, k)
    /\ \A p \in Partials : Partial_hash(p) = HashP(to_partial(p.value))
    /\ \A v \in Values :
          FindKey(inner, to_partial(v)) = FindEntry(inner, Partial_from(v))
    /\ (last.op = "insert" /\ prev.op = "contains"
        /\ prev.arg = to_partial(last.arg)) => last.ret = ~prev.ret

\* contains(k) found a member and an insert under k, of another full value,
\* then collided with it
C15_Witness ==
    /\ last.op = "insert"
    /\ prev.op = "contains"
    /\ prev.arg = to_partial(last.arg)
    /\ prev.ret = TRUE
    /\ last.ret = FALSE
    /\ last.arg \notin ValuesOf(inner)

\* C16: when a drain() is abandoned after it yielded only some of the values
\* (or none), the values not yielded are removed too: once the drain has
\* ended the set is empty.
C16_DrainAbandoned ==
    /\ drain.on => PartialSet_len(inner) = 0
    /\ last.op = "drain_end" =>
          /\ PartialSet_len(inner) = 0
          /\ \A k \in Keys : ~PartialSet_contains(inner, k)
          /\ Range(last.ret.out) \subseteq ValuesOf(last.pre)

\* a drain dropped after it yielded one value of several
C16_Witness ==
    /\ last.op = "drain_end"
    /\ ~last.ret.done
    /\ Len(last.ret.out) = 1
    /\ Cardinality(last.pre) >= 2

\* C17: iter() is a read-only, restartable traversal: a full traversal
\* yields every stored value exactly once and ends after len() items, the
\* set is the same afterwards, and two traversals with no mutation in
\* between yield the same collection of values.
C17_Iter ==
    LET full(o, s) == /\ {r.deref : r \in Range(o)} = ValuesOf(s)
                      /\ Len(o) = PartialSet_len(s)
                      /\ NoRepeat(o)
    IN  /\ it.on =>
              /\ inner = last.pre
              /\ NoRepeat(it.out)
              /\ {r.deref : r \in Range(it.out)} \subseteq ValuesOf(inner)
              /\ it.done => full(it.out, inner)
        /\ last.op = "iter_end" =>
              /\ inner = last.pre
              /\ PartialSet_capacity = last.cap
              /\ last.ret.done => full(last.ret.out, inner)
        /\ (last.op = "iter_end" /\ prev.op = "iter_end"
            /\ last.ret.done /\ prev.ret.done)
              => Range(last.ret.out) = Range(prev.ret.out)

\* two full traversals of a set of several members, one after the other
C17_Witness ==
    /\ last.op = "iter_end"
    /\ prev.op = "iter_end"
    /\ last.ret.done
    /\ prev.ret.done
    /\ Len(last.ret.out) >= 2

\* C18: len() is the number of distinct keys among the members and
\* is_empty() is true iff len() == 0; len() grows by one on an insert that
\* returns true or a replace that returns None, shrinks by one on a remove
\* that returns true or a take that returns Some, and is unchanged by an
\* insert that returns false, a replace that returns Some, a remove that
\* returns false and a take that returns None.
C18_Len ==
    LET delta == PartialSet_len(inner) - PartialSet_len(last.pre)
    IN  /\ PartialSet_len(inner) = Cardinality(KeysOf(inner))
        /\ PartialSet_is_empty(inner) = (PartialSet_len(inner) = 0)
        /\ PartialSet_is_empty(inner) = (inner = {})
        /\ last.op = "insert" => delta = (IF last.ret THEN 1 ELSE 0)
        /\ last.op = "replace" => delta = (IF last.ret = None THEN 1 ELSE 0)
        /\ last.op = "remove" => delta = (IF last.ret THEN -1 ELSE 0)
        /\ last.op = "take" => delta = (IF last.ret = None THEN 0 ELSE -1)

\* a replace of a stored member, in a set of several, left len() as it was
C18_Witness ==
    /\ last.op = "replace"
    /\ last.ret # None
    /\ last.ret # Some(last.arg)
    /\ PartialSet_len(inner) >= 2
    /\ PartialSet_len(inner) = PartialSet_len(last.pre)

\* C19: insert(v), replace(v), remove(k) and take(k) touch their own key
\* only: every member under another key is present, with the same full
\* value, after the call as before it.
C19_OtherKeysUntouched ==
    /\ last.op \in {"insert", "replace"} =>
          \A k \in Keys \ {to_partial(last.arg)} :
              StoredUnder(inner, k) = StoredUnder(last.pre, k)
    /\ last.op \in {"remove", "take"} =>
          \A k \in Keys \ {last.arg} :
              StoredUnder(inner, k) = StoredUnder(last.pre, k)

\* a take removed a member while a member under another key, of the same
\* hash class, stayed
C19_Witness ==
    /\ last.op = "take"
    /\ last.ret # None
    /\ \E p \in inner : /\ to_partial(p.value) # last.arg
                        /\ Partial_hash(p) = HashP(last.arg)

\* the table never holds more than its capacity plan allows
TableOK ==
    /\ growth_left(Cardinality(inner), buckets, tombs) >= 0
    /\ tombs >= 0
    /\ buckets <= MaxBuckets

\* a request no table can serve: it overflows usize or exceeds the largest
\* table the allocator grants
Unservable(items, n) == items + n > MaxUsize \/ n >= MaxBuckets

\* C11: try_reserve reports an error where the requested capacity cannot be
\* allocated, it does not abort, and the members are unchanged whether it
\* fails or succeeds; on success the capacity covers the request.
C11_TryReserve ==
    /\ last.op = "abort" => last.arg.call # "try_reserve"
    /\ last.op = "try_reserve" =>
          /\ inner = last.pre
          /\ last.ret \in {Ok, Err("CapacityOverflow"), Err("AllocError")}
          /\ Unservable(Cardinality(last.pre), last.arg) => last.ret # Ok
          /\ last.ret = Ok =>
                PartialSet_capacity >= PartialSet_len(inner) + last.arg
          /\ last.ret # Ok => PartialSet_capacity = last.cap

\* a try_reserve of the largest usize on a set with members failed
C11_Witness ==
    /\ last.op = "try_reserve"
    /\ last.arg = MaxUsize
    /\ last.ret # Ok
    /\ inner # {}

\* C12: reserve(n), shrink_to(n) and shrink_to_fit() never change the
\* contents: the stored values, len() and every lookup are as before.
C12_CapacityOpsKeepContents ==
    last.op \in {"reserve", "shrink_to", "shrink_to_fit"} =>
        /\ inner = last.pre
        /\ PartialSet_len(inner) = PartialSet_len(last.pre)
        /\ \A k \in 1..GroupWidth :
              /\ PartialSet_contains(inner, k) = PartialSet_contains(last.pre, k)
              /\ FindKey(inner, k) = FindKey(last.pre, k)
        /\ PartialSet_capacity >= PartialSet_len(inner)

\* a shrink below the number of members, which changed the capacity
C12_Witness ==
    /\ last.op = "shrink_to"
    /\ last.arg < Cardinality(inner)
    /\ PartialSet_capacity < last.cap
    /\ Cardinality(inner) >= 2

\* C13 as stated: after clear(), len() == 0, is_empty() is true, contains(k)
\* is false for every key k, and capacity() is the same as before the call.
C13_ClearSameCapacity ==
    last.op = "clear" =>
        /\ PartialSet_len(inner) = 0
        /\ PartialSet_is_empty(inner)
        /\ \A k \in 1..GroupWidth : ~PartialSet_contains(inner, k)
        /\ PartialSet_capacity = last.cap

\* C13 amended: after clear(), len() == 0, is_empty() is true, contains(k)
\* is false for every key k, and capacity() is not less than before the call.
C13_Clear ==
    last.op = "clear" =>
        /\ PartialSet_len(inner) = 0
        /\ PartialSet_is_empty(inner)
        /\ \A k \in 1..GroupWidth : ~PartialSet_contains(inner, k)
        /\ PartialSet_capacity >= last.cap

\* a clear of a set with members, whose capacity a removal had lowered
C13_Witness ==
    /\ last.op = "clear"
    /\ last.pre # {}
    /\ last.cap > 0
    /\ PartialSet_capacity > last.cap
====
